---- MODULE Spec2Model ----
(***************************************************************************)
(* Tic-tac-toe game controller (React component App) with move history,   *)
(* time travel and a computer opponent.                                    *)
(*                                                                         *)
(* Three builds of the component are modelled:                             *)
(*   "timer"  : src/tic_tac_toe_frontend/src/App.js - computer move from a *)
(*              500 ms timer that the effect cleanup cancels;              *)
(*   "nokey"  : src/unnamed/part_000 without REACT_APP_OPENAI_API_KEY -    *)
(*              doAIMove runs the fallback synchronously in the effect;    *)
(*   "openai" : src/unnamed/part_000 with a key - doAIMove awaits the      *)
(*              external service and continues in the closure of the       *)
(*              render that started it.                                    *)
(*                                                                         *)
(* React semantics assumed: state updates of one handler (or one promise   *)
(* continuation) are batched; effects whose dependencies changed run after *)
(* the render and before the next event.  A handler, timer callback or     *)
(* continuation reads the state of the render that created it.             *)
(***************************************************************************)
EXTENDS Integers, Sequences, FiniteSets, Bags, TLC

VARIABLES build, board, boardRef, isXNext, history, step, mode, status,
          winningLine, error, aiThinking, depsChanged, pending, timer, last

vars == <<build, board, boardRef, isXNext, history, step, mode, status,
          winningLine, error, aiThinking, depsChanged, pending, timer, last>>

session == <<board, history, step, isXNext>>

\* ---------------------------------------------------------------- bounds
\* longest history kept, and most suggestion requests in flight
MaxHist == 3
MaxPending == 2

\* ------------------------------------------------------------ board model
null == "null"
Idx == 0..2

createEmptyBoard == [i \in Idx |-> [j \in Idx |-> null]]

\* board[r][c] as JavaScript reads it: undefined (falsy) outside the row
cellAt(b, r, c) == IF r \in Idx /\ c \in Idx THEN b[r][c] ELSE null

marks(b) == Cardinality({p \in Idx \X Idx : b[p[1]][p[2]] # null})

\* the table with the anti-diagonal ending in the wrong cell
linesTypo == << << <<0,0>>, <<0,1>>, <<0,2>> >>,
                << <<1,0>>, <<1,1>>, <<1,2>> >>,
                << <<2,0>>, <<2,1>>, <<2,2>> >>,
                << <<0,0>>, <<1,0>>, <<2,0>> >>,
                << <<0,1>>, <<1,1>>, <<2,1>> >>,
                << <<0,2>>, <<1,2>>, <<2,2>> >>,
                << <<0,0>>, <<1,1>>, <<2,2>> >>,
                << <<0,2>>, <<1,1>>, <<2,1>> >> >>

\* the table without the middle column (row 0 listed in its place)
linesNoMiddleColumn == << << <<0,0>>, <<0,1>>, <<0,2>> >>,
                          << <<1,0>>, <<1,1>>, <<1,2>> >>,
                          << <<2,0>>, <<2,1>>, <<2,2>> >>,
                          << <<0,0>>, <<1,0>>, <<2,0>> >>,
                          << <<0,0>>, <<0,1>>, <<0,2>> >>,
                          << <<0,2>>, <<1,2>>, <<2,2>> >>,
                          << <<0,0>>, <<1,1>>, <<2,2>> >>,
                          << <<0,2>>, <<1,1>>, <<2,0>> >> >>

lines == << << <<0,0>>, <<0,1>>, <<0,2>> >>,
            << <<1,0>>, <<1,1>>, <<1,2>> >>,
            << <<2,0>>, <<2,1>>, <<2,2>> >>,
            << <<0,0>>, <<1,0>>, <<2,0>> >>,
            << <<0,1>>, <<1,1>>, <<2,1>> >>,
            << <<0,2>>, <<1,2>>, <<2,2>> >>,
            << <<0,0>>, <<1,1>>, <<2,2>> >>,
            << <<0,2>>, <<1,1>>, <<2,0>> >> >>

NoLine == << >>
NoResult == [winner |-> null, line |-> NoLine, draw |-> FALSE]

lineComplete(b, l) ==
    /\ b[l[1][1]][l[1][2]] # null
    /\ b[l[1][1]][l[1][2]] = b[l[2][1]][l[2][2]]
    /\ b[l[1][1]][l[1][2]] = b[l[3][1]][l[3][2]]

\* the for loop over lines: the index of the first complete line from n on,
\* 0 when there is none
RECURSIVE firstCompleteLine(_, _)
firstCompleteLine(b, n) ==
    IF n > Len(lines) THEN 0
    ELSE IF lineComplete(b, lines[n]) THEN n
    ELSE firstCompleteLine(b, n + 1)

\* an evaluator that reports the last complete line of the table
calculateWinnerLastLine(b) ==
    LET done == {k \in 1..Len(lines) : lineComplete(b, lines[k])}
        n == IF done = {} THEN 0
             ELSE CHOOSE k \in done : \A j \in done : j <= k
    IN  IF n # 0
        THEN [winner |-> b[lines[n][1][1]][lines[n][1][2]],
              line |-> lines[n], draw |-> FALSE]
        ELSE IF \A i \in Idx : \A j \in Idx : b[i][j] # null
             THEN [winner |-> null, line |-> NoLine, draw |-> TRUE]
             ELSE NoResult

calculateWinner(b) ==
    LET n == firstCompleteLine(b, 1)
    IN  IF n # 0
        THEN [winner |-> b[lines[n][1][1]][lines[n][1][2]],
              line |-> lines[n], draw |-> FALSE]
        ELSE IF \A i \in Idx : \A j \in Idx : b[i][j] # null
             THEN [winner |-> null, line |-> NoLine, draw |-> TRUE]
             ELSE NoResult

NoMove == << >>

\* the two nested loops, cell n = 3 * i + j
RECURSIVE firstEmptyFrom(_, _)
firstEmptyFrom(b, n) ==
    IF n > 8 THEN NoMove
    ELSE IF b[n \div 3][n % 3] = null THEN <<n \div 3, n % 3>>
    ELSE firstEmptyFrom(b, n + 1)

\* the two loops nested the other way round: first empty cell by columns
findBestMoveByColumns(b) ==
    LET free == {p \in Idx \X Idx : b[p[1]][p[2]] = null}
    IN  IF free = {} THEN NoMove
        ELSE CHOOSE p \in free :
               \A q \in free : 3 * p[2] + p[1] <= 3 * q[2] + q[1]

findBestMove(b) == firstEmptyFrom(b, 0)

\* ------------------------------------------------------------ observation
\* last records the operation that produced the state: its name, the cursor
\* and the history length it started from, and whether it applied a move.
Op(name, ok) == [op |-> name, k |-> step, n |-> Len(history), ok |-> ok]

\* --------------------------------------------------------------- closures
\* The state a handler created by one render reads.
Closure(b, x, h, s, m) ==
    [board |-> b, isXNext |-> x, history |-> h, step |-> s, mode |-> m]

Cur == Closure(board, isXNext, history, step, mode)

InitialEntry == [board |-> createEmptyBoard, move |-> NoMove, player |-> "X"]

\* history.slice(0, end) for end >= 0
sliceNoTruncate(h, end) == h

slice(h, end) == SubSeq(h, 1, IF end < Len(h) THEN end ELSE Len(h))

\* handleCellClick: the guard of its early return
clickBlockedNoWinner(cl, row, col, computerMove) ==
    \/ cellAt(cl.board, row, col) # null
    \/ (cl.mode = "pvc" /\ ~cl.isXNext /\ ~computerMove)

\* a guard that stops play on a full board only, not on a win
clickBlockedDrawOnly(cl, row, col, computerMove) ==
    \/ calculateWinner(cl.board).draw
    \/ cellAt(cl.board, row, col) # null
    \/ (cl.mode = "pvc" /\ ~cl.isXNext /\ ~computerMove)

clickBlocked(cl, row, col, computerMove) ==
    \/ calculateWinner(cl.board) # NoResult
    \/ cellAt(cl.board, row, col) # null
    \/ (cl.mode = "pvc" /\ ~cl.isXNext /\ ~computerMove)

clickPlayer(cl) == IF cl.isXNext THEN "X" ELSE "O"

clickBoard(cl, row, col) ==
    [i \in Idx |-> [j \in Idx |->
        IF i = row /\ j = col THEN clickPlayer(cl) ELSE cl.board[i][j]]]

\* a move written into the board object the history already holds
clickHistoryInPlace(cl, row, col) ==
    LET kept == slice(cl.history, cl.step + 1)
    IN  Append([kept EXCEPT ![Len(kept)].board = clickBoard(cl, row, col)],
               [board |-> clickBoard(cl, row, col), move |-> <<row, col>>,
                player |-> clickPlayer(cl)])

clickHistory(cl, row, col) ==
    Append(slice(cl.history, cl.step + 1),
           [board |-> clickBoard(cl, row, col), move |-> <<row, col>>,
            player |-> clickPlayer(cl)])

\* the four state updates of an accepted handleCellClick
commitClick(cl, row, col) ==
    LET nextHistory == clickHistory(cl, row, col)
    IN  /\ board' = nextHistory[Len(nextHistory)].board
        /\ history' = nextHistory
        /\ step' = Len(nextHistory) - 1
        /\ boardRef' = Len(nextHistory) - 1
        /\ isXNext' = ~cl.isXNext
        /\ depsChanged' = TRUE

\* ------------------------------------------------------------------ init
Init ==
    /\ build \in {"timer", "nokey", "openai"}
    /\ board = createEmptyBoard
    /\ boardRef = -1
    /\ isXNext = TRUE
    /\ history = <<InitialEntry>>
    /\ step = 0
    /\ mode = "pvp"
    /\ status = "Next: X"
    /\ winningLine = NoLine
    /\ error = ""
    /\ aiThinking = FALSE
    /\ depsChanged = FALSE
    /\ pending = EmptyBag
    /\ timer = << >>
    /\ last = [op |-> "init", k |-> 0, n |-> 1, ok |-> FALSE]

\* --------------------------------------------------------------- handlers
\* the cells a human clicks
ClickCells == {<<0, 0>>, <<0, 1>>}

HandleCellClick(row, col) ==
    /\ ~depsChanged
    /\ IF clickBlocked(Cur, row, col, FALSE)
       THEN /\ last' = Op("click", FALSE)
            /\ UNCHANGED <<board, boardRef, isXNext, history, step,
                           depsChanged>>
       ELSE /\ last' = Op("click", TRUE)
            /\ commitClick(Cur, row, col)
    /\ UNCHANGED <<build, mode, status, winningLine, error, aiThinking,
                   pending, timer>>

\* jumpTo: the turn it derives from the index
jumpTurnOdd(stepIdx) == (stepIdx % 2 = 1)

jumpTurn(stepIdx) == (stepIdx % 2 = 0)

\* a jumpTo that drops the entries after the index
JumpToTruncating(stepIdx) ==
    /\ ~depsChanged
    /\ stepIdx \in 0..(Len(history) - 1)
    /\ step' = stepIdx
    /\ history' = SubSeq(history, 1, stepIdx + 1)
    /\ board' = history[stepIdx + 1].board
    /\ boardRef' = stepIdx
    /\ isXNext' = jumpTurn(stepIdx)
    /\ winningLine' = NoLine
    /\ depsChanged' = (boardRef # stepIdx \/ isXNext # jumpTurn(stepIdx))
    /\ last' = Op("jump", FALSE)
    /\ UNCHANGED <<build, mode, status, error, aiThinking, pending, timer>>

\* a jump that moves the cursor and leaves the displayed board as it was
JumpToKeepBoard(stepIdx) ==
    /\ ~depsChanged
    /\ stepIdx \in 0..(Len(history) - 1)
    /\ step' = stepIdx
    /\ isXNext' = jumpTurn(stepIdx)
    /\ winningLine' = NoLine
    /\ depsChanged' = (isXNext # jumpTurn(stepIdx))
    /\ last' = Op("jump", FALSE)
    /\ UNCHANGED <<build, board, boardRef, history, mode, status, error,
                   aiThinking, pending, timer>>

JumpTo(stepIdx) ==
    /\ ~depsChanged
    /\ stepIdx \in 0..(Len(history) - 1)
    /\ step' = stepIdx
    /\ board' = history[stepIdx + 1].board
    /\ boardRef' = stepIdx
    /\ isXNext' = jumpTurn(stepIdx)
    /\ winningLine' = NoLine
    /\ depsChanged' = (boardRef # stepIdx \/ isXNext # jumpTurn(stepIdx))
    /\ last' = Op("jump", FALSE)
    /\ UNCHANGED <<build, history, mode, status, error, aiThinking,
                   pending, timer>>

\* a reset that leaves the history as it was
resetUpdatesKeepHistory ==
    /\ board' = createEmptyBoard
    /\ boardRef' = -1
    /\ isXNext' = TRUE
    /\ history' = history
    /\ step' = 0
    /\ status' = "Next: X"
    /\ winningLine' = NoLine
    /\ error' = ""
    /\ aiThinking' = FALSE
    /\ depsChanged' = TRUE

\* a reset that leaves the cursor where it was
resetUpdatesKeepStep ==
    /\ board' = createEmptyBoard
    /\ boardRef' = -1
    /\ isXNext' = TRUE
    /\ history' = <<InitialEntry>>
    /\ step' = step
    /\ status' = "Next: X"
    /\ winningLine' = NoLine
    /\ error' = ""
    /\ aiThinking' = FALSE
    /\ depsChanged' = TRUE

resetUpdates ==
    /\ board' = createEmptyBoard
    /\ boardRef' = -1
    /\ isXNext' = TRUE
    /\ history' = <<InitialEntry>>
    /\ step' = 0
    /\ status' = "Next: X"
    /\ winningLine' = NoLine
    /\ error' = ""
    /\ aiThinking' = FALSE
    /\ depsChanged' = TRUE

HandleReset ==
    /\ ~depsChanged
    /\ resetUpdates
    /\ last' = Op("reset", FALSE)
    /\ UNCHANGED <<build, mode, pending, timer>>

HandleModeChange(m) ==
    /\ ~depsChanged
    /\ m # mode
    /\ mode' = m
    /\ resetUpdates
    /\ last' = Op("mode", FALSE)
    /\ UNCHANGED <<build, pending, timer>>

\* ------------------------------------------------- suggestion service
\* A response of the external service: the request rejects (ok = FALSE) or
\* resolves with a text, modelled as a sequence of tokens: free text or a
\* bracketed array of integers.
Txt == [t |-> "txt", v |-> << >>]
Arr(v) == [t |-> "arr", v |-> v]

\* "invalid", "Sure! [1, 2] is my move.", "[0, 0]", "[1, 3]", "[3, 1]",
\* "[-1, 1]" and "[-1, 0] ok"
Raws ==
    {<<Txt>>, <<Txt, Arr(<<1, 2>>), Txt>>, <<Arr(<<0, 0>>)>>,
     <<Arr(<<1, 3>>)>>, <<Arr(<<3, 1>>)>>, <<Arr(<<-1, 1>>)>>,
     <<Arr(<<-1, 0>>), Txt>>}

Responses ==
    {[ok |-> FALSE, raw |-> << >>]} \cup {[ok |-> TRUE, raw |-> r] : r \in Raws}

\* raw.match(/\[ *\d+ *, *\d+ *\]/): the first two-element array of
\* unsigned integers anywhere in the text
regexHits(raw) ==
    {n \in 1..Len(raw) : /\ raw[n].t = "arr"
                         /\ Len(raw[n].v) = 2
                         /\ raw[n].v[1] >= 0
                         /\ raw[n].v[2] >= 0}

\* getOpenAIMove: threw (the awaited call rejected) or the parsed move,
\* NoMove standing for null
getOpenAIMove(resp) ==
    IF ~resp.ok THEN [threw |-> TRUE, move |-> NoMove]
    ELSE IF regexHits(resp.raw) # {}
    THEN [threw |-> FALSE,
          move |-> resp.raw[CHOOSE n \in regexHits(resp.raw) :
                              \A k \in regexHits(resp.raw) : n <= k].v]
    ELSE IF resp.raw # << >> /\ resp.raw[1].t = "arr" /\ Len(resp.raw) = 1
    THEN [threw |-> FALSE, move |-> resp.raw[1].v]
    ELSE [threw |-> FALSE, move |-> NoMove]

\* doAIMove after the await: does the try block throw (request rejected, or
\* board[move[0]] undefined), and is the service's move discarded
aiThrew(cl, resp) ==
    LET r == getOpenAIMove(resp)
    IN  r.threw \/ (Len(r.move) = 2 /\ r.move[1] \notin Idx)

moveRejected(cl, mv) ==
    \/ mv = NoMove
    \/ Len(mv) # 2
    \/ cellAt(cl.board, mv[1], mv[2]) # null

aiTarget(cl, resp) ==
    LET r == getOpenAIMove(resp)
    IN  IF aiThrew(cl, resp) \/ moveRejected(cl, r.move)
        THEN findBestMove(cl.board)
        ELSE r.move

\* ---------------------------------------------------------------- effects
\* a guard that does not look at the outcome of the board
aiGuardNoOutcome == mode = "pvc" /\ ~isXNext

aiGuard == mode = "pvc" /\ calculateWinner(board) = NoResult /\ ~isXNext

winnerStatus(b, x) ==
    IF calculateWinner(b).winner # null
    THEN IF calculateWinner(b).winner = "X" THEN "Winner: X" ELSE "Winner: O"
    ELSE IF calculateWinner(b).draw THEN "Draw!"
    ELSE IF x THEN "Next: X" ELSE "Next: O"

\* The effects of one render whose dependencies changed: winner detection,
\* then the computer-turn effect (with the cleanup of the previous timer).
RunEffects ==
    /\ depsChanged
    /\ status' = winnerStatus(board, isXNext)
    /\ winningLine' = calculateWinner(board).line
    /\ IF ~aiGuard
       THEN /\ timer' = << >>
            /\ depsChanged' = FALSE
            /\ UNCHANGED <<board, boardRef, isXNext, history, step, error,
                           aiThinking, pending>>
       ELSE IF build = "timer"
       THEN /\ timer' = <<Cur>>
            /\ depsChanged' = FALSE
            /\ UNCHANGED <<board, boardRef, isXNext, history, step, error,
                           aiThinking, pending>>
       ELSE IF build = "openai"
       THEN /\ pending' = pending (+) SetToBag({Cur})
            /\ aiThinking' = TRUE
            /\ error' = ""
            /\ depsChanged' = FALSE
            /\ UNCHANGED <<board, boardRef, isXNext, history, step, timer>>
       ELSE /\ LET mv == findBestMove(board)
               IN  commitClick(Cur, mv[1], mv[2])
            /\ aiThinking' = FALSE
            /\ error' = ""
            /\ UNCHANGED <<pending, timer>>
    /\ last' = Op("effects", aiGuard /\ build = "nokey")
    /\ UNCHANGED <<build, mode>>

\* The 500 ms timer of App.js fires: the callback runs in its closure.
TimerFire ==
    /\ ~depsChanged
    /\ build = "timer"
    /\ timer # << >>
    /\ LET cl == timer[1]
           mv == findBestMove(cl.board)
       IN  /\ last' = Op("timer", ~clickBlocked(cl, mv[1], mv[2], TRUE))
           /\ IF clickBlocked(cl, mv[1], mv[2], TRUE)
              THEN UNCHANGED <<board, boardRef, isXNext, history, step,
                               depsChanged>>
              ELSE commitClick(cl, mv[1], mv[2])
    /\ timer' = << >>
    /\ UNCHANGED <<build, mode, status, winningLine, error, aiThinking,
                   pending>>

\* The awaited getOpenAIMove of one pending doAIMove settles with resp.
Resolve(cl, resp) ==
    LET tgt == aiTarget(cl, resp)
    IN  /\ ~depsChanged
        /\ build = "openai"
        /\ BagIn(cl, pending)
        /\ pending' = pending (-) SetToBag({cl})
        /\ error' = (IF aiThrew(cl, resp)
                     THEN "AI move failed, using fallback." ELSE error)
        /\ aiThinking' = FALSE
        /\ last' = Op("resolve", ~(\/ tgt = NoMove
                                   \/ clickBlocked(cl, tgt[1], tgt[2], TRUE)))
        /\ IF tgt = NoMove \/ clickBlocked(cl, tgt[1], tgt[2], TRUE)
           THEN UNCHANGED <<board, boardRef, isXNext, history, step,
                            depsChanged>>
           ELSE commitClick(cl, tgt[1], tgt[2])
        /\ UNCHANGED <<build, mode, status, winningLine, timer>>

\* jumpTo called with an index that is no history entry: setStep is queued,
\* then history[stepIdx].board throws a TypeError.
JumpToOutOfRange(stepIdx) ==
    /\ ~depsChanged
    /\ stepIdx \notin 0..(Len(history) - 1)
    /\ step' = stepIdx
    /\ last' = Op("jumpOutOfRange", FALSE)
    /\ UNCHANGED <<build, board, boardRef, isXNext, history, mode, status,
                   winningLine, error, aiThinking, depsChanged, pending, timer>>

\* a step is explored only while the history and the requests in flight
\* stay within h entries and p requests
Within(h, p) == Len(history') <= h /\ BagCardinality(pending') <= p

Next ==
    \/ \E p \in ClickCells :
          HandleCellClick(p[1], p[2]) /\ Within(MaxHist, MaxPending)
    \/ \E k \in 0..(MaxHist - 1) : JumpTo(k)
    \/ HandleReset
    \/ \E m \in {"pvp", "pvc"} : HandleModeChange(m)
    \/ RunEffects /\ Within(MaxHist, MaxPending)
    \/ TimerFire /\ Within(MaxHist, MaxPending)
    \/ \E cl \in BagToSet(pending) : \E resp \in Responses :
          Resolve(cl, resp) /\ Within(MaxHist, MaxPending)

Spec == Init /\ [][Next]_vars

\* What the scheduling guarantees: React runs the effects of a render, and a
\* timer that is not cleared fires.  Nothing makes the user act or the
\* external service answer.
SpecLive ==
    /\ Init
    /\ [][Next]_vars
    /\ WF_vars(RunEffects /\ Within(MaxHist, MaxPending))
    /\ WF_vars(TimerFire /\ Within(MaxHist, MaxPending))

\* The component driven through its public functions instead of its buttons.
NextApi ==
    \/ Next
    \/ \E k \in {Len(history)} : JumpToOutOfRange(k)

SpecApi == Init /\ [][NextApi]_vars

\* ------------------------------------------------------------ whole games
\* Games played to their end.  The cells offered to a click depend on the
\* cursor: GameScript[k + 1] at step k.  Played by two humans the script
\* contains a win of X by row 0 at the fifth move, a win of O by the main
\* diagonal, a draw, and a ninth move of X at (0,0) that completes row 0 and
\* column 0 together.  The service, when asked, rejects the request.
GameHist == 10
GamePending == 1

GameScript ==
    << {<<0, 1>>},
       {<<1, 1>>},
       {<<0, 2>>},
       {<<1, 2>>},
       {<<1, 0>>, <<0, 0>>},
       {<<2, 1>>, <<0, 0>>},
       {<<2, 0>>, <<2, 2>>},
       {<<2, 2>>, <<2, 0>>},
       {<<0, 0>>, <<2, 1>>} >>

GameCells(k) == IF k + 1 \in DOMAIN GameScript THEN GameScript[k + 1] ELSE {}

GameResponses == {[ok |-> FALSE, raw |-> << >>]}

NextGame ==
    \/ \E p \in GameCells(step) :
          HandleCellClick(p[1], p[2]) /\ Within(GameHist, GamePending)
    \/ \E k \in 0..(GameHist - 1) : JumpTo(k)
    \/ HandleReset
    \/ \E m \in {"pvp", "pvc"} : HandleModeChange(m)
    \/ RunEffects /\ Within(GameHist, GamePending)
    \/ TimerFire /\ Within(GameHist, GamePending)
    \/ \E cl \in BagToSet(pending) : \E resp \in GameResponses :
          Resolve(cl, resp) /\ Within(GameHist, GamePending)

SpecGame == Init /\ [][NextGame]_vars

\* ------------------------------------------- whole games against the computer
\* The cells offered to a click at the even steps, the human's in pvc; the
\* computer answers with the fallback move (the service, when asked,
\* rejects the request).  The script contains a draw on a full board
\* (X at (1,1), (0,1), (2,0), (1,2), (2,2)) and a win of X by column 1 at the
\* fifth move.
PvcScript ==
    << {<<1, 1>>},
       {},
       {<<0, 1>>},
       {},
       {<<2, 0>>, <<2, 1>>},
       {},
       {<<1, 2>>},
       {},
       {<<2, 2>>} >>

PvcCells(k) == IF k + 1 \in DOMAIN PvcScript THEN PvcScript[k + 1] ELSE {}

NextPvc ==
    \/ \E p \in PvcCells(step) :
          HandleCellClick(p[1], p[2]) /\ Within(GameHist, GamePending)
    \/ \E k \in 0..(GameHist - 1) : JumpTo(k)
    \/ HandleReset
    \/ \E m \in {"pvp", "pvc"} : HandleModeChange(m)
    \/ RunEffects /\ Within(GameHist, GamePending)
    \/ TimerFire /\ Within(GameHist, GamePending)
    \/ \E cl \in BagToSet(pending) : \E resp \in GameResponses :
          Resolve(cl, resp) /\ Within(GameHist, GamePending)

SpecPvc == Init /\ [][NextPvc]_vars

\* -------------------------------------------------------- the evaluator
\* calculateWinner on every 3x3 board over {empty, X, O}: the board is any
\* such board, and the winner-detection effect evaluates it into status and
\* winningLine.
AllBoards == [Idx -> [Idx -> {null, "X", "O"}]]

InitEval ==
    /\ build \in {"timer", "nokey", "openai"}
    /\ board \in AllBoards
    /\ boardRef = -1
    /\ isXNext = TRUE
    /\ history = <<InitialEntry>>
    /\ step = 0
    /\ mode = "pvp"
    /\ status = "Next: X"
    /\ winningLine = NoLine
    /\ error = ""
    /\ aiThinking = FALSE
    /\ depsChanged = TRUE
    /\ pending = EmptyBag
    /\ timer = << >>
    /\ last = [op |-> "init", k |-> 0, n |-> 1, ok |-> FALSE]

NextEval == RunEffects

SpecEval == InitEval /\ [][NextEval]_vars

\* -------------------------------------------------- the fallback selector
\* findBestMove on every 3x3 board over {empty, X, O}: the board is any such
\* board, it is the computer's turn, and the computer-turn effect of each
\* build runs on it (the service, when asked, rejects the request).
InitFallback ==
    /\ build \in {"timer", "nokey", "openai"}
    /\ board \in AllBoards
    /\ boardRef = 0
    /\ isXNext = FALSE
    /\ history = <<[InitialEntry EXCEPT !.board = board]>>
    /\ step = 0
    /\ mode = "pvc"
    /\ status = "Next: O"
    /\ winningLine = NoLine
    /\ error = ""
    /\ aiThinking = FALSE
    /\ depsChanged = TRUE
    /\ pending = EmptyBag
    /\ timer = << >>
    /\ last = [op |-> "init", k |-> 0, n |-> 1, ok |-> FALSE]

NextFallback ==
    \/ RunEffects
    \/ TimerFire
    \/ \E cl \in BagToSet(pending) : \E resp \in GameResponses :
          Resolve(cl, resp)

SpecFallback == InitFallback /\ [][NextFallback]_vars

\* =================================================================== claims
ComputerTurnResolves ==
    \/ \E cl \in BagToSet(pending), resp \in Responses : Resolve(cl, resp)
    \/ TimerFire
    \/ (RunEffects /\ aiGuard /\ build = "nokey")

\* the board is b with exactly one empty cell of b turned into mark
oneCellMarked(b, nb, mark) ==
    \E p \in Idx \X Idx :
        /\ b[p[1]][p[2]] = null
        /\ nb[p[1]][p[2]] = mark
        /\ \A q \in Idx \X Idx : q # p => nb[q[1]][q[2]] = b[q[1]][q[2]]

\* C1: when a suggestion request settles, the service's pair is the move
\* applied iff it is a pair with row and column in 0..2 whose cell is empty
\* on the board; for every other answer the fallback selector's move is the
\* move applied.
C1_ServiceMoveValidated ==
    [][\A cl \in BagToSet(pending), resp \in Responses :
         Resolve(cl, resp) =>
           LET r == getOpenAIMove(resp)
               valid == /\ ~r.threw
                        /\ Len(r.move) = 2
                        /\ r.move[1] \in Idx
                        /\ r.move[2] \in Idx
                        /\ cl.board[r.move[1]][r.move[2]] = null
           IN  history'[Len(history')].move =
                 IF valid THEN r.move ELSE findBestMove(cl.board)]_vars

\* C2: a response that arrives when the session is exactly what a reset or a
\* mode change left (fresh board, one history entry, step 0) is discarded:
\* board, history, step and turn stay as they are.
C2_StaleResponseDiscarded ==
    [][\A cl \in BagToSet(pending), resp \in Responses :
         (Resolve(cl, resp) /\ boardRef = -1 /\ history = <<InitialEntry>>)
           => UNCHANGED session]_vars

\* C3: at most one suggestion request is in flight at any time.
C3_SingleFlight == BagCardinality(pending) <= 1

\* C4: while a suggestion request is in flight, a cell click changes neither
\* board, history, step nor turn.
C4_NoHumanMoveWhilePending ==
    [][(pending # EmptyBag /\ \E p \in ClickCells : HandleCellClick(p[1], p[2]))
         => UNCHANGED session]_vars

\* C5: every computer turn that resolves appends exactly one history entry
\* and puts O into exactly one cell of the board that was empty.
C5_ExactlyOneMove ==
    [][ComputerTurnResolves =>
         /\ Len(history') = Len(history) + 1
         /\ oneCellMarked(board, board', "O")]_vars

\* C6: the board of the history entry at index i holds exactly i marks.
C6_MarksEqualIndex ==
    \A i \in 1..Len(history) : marks(history[i].board) = i - 1

\* C7: a human move accepted at step k of a history of length N, k < N-1,
\* leaves a history of length k+2 whose entries 0..k are the old ones and
\* whose last entry is the new move; step becomes k+1.
C7_TruncateOnBranch ==
    [][\A p \in ClickCells :
         (/\ HandleCellClick(p[1], p[2])
          /\ ~clickBlocked(Cur, p[1], p[2], FALSE)
          /\ step < Len(history) - 1)
           => /\ Len(history') = step + 2
              /\ \A i \in 1..(step + 1) : history'[i] = history[i]
              /\ history'[step + 2].move = p
              /\ history'[step + 2].player = (IF isXNext THEN "X" ELSE "O")
              /\ oneCellMarked(board, history'[step + 2].board,
                               IF isXNext THEN "X" ELSE "O")
              /\ history'[step + 2].board[p[1]][p[2]] # null
              /\ step' = step + 1]_vars

C7_Witness ==
    /\ last.op = "click"
    /\ last.ok
    /\ last.k < last.n - 2
    /\ Len(history) = last.k + 2

\* C8: jumpTo with an index inside the history leaves the history (length
\* and entries) and the mode unchanged; the cursor becomes the index.
C8_JumpKeepsHistory ==
    [][\A k \in 0..(Len(history) - 1) :
         JumpTo(k) => (history' = history /\ mode' = mode /\ step' = k)]_vars

C8_Witness ==
    /\ last.op = "jump"
    /\ last.k # step
    /\ Len(history) = 3

\* C9: jumpTo with an index outside the history leaves history, step, board
\* and turn unchanged.
C9_OutOfRangeJumpNoChange ==
    [][\A k \in {Len(history)} :
         JumpToOutOfRange(k) => UNCHANGED session]_vars

\* C10: X moves next iff the cursor is even.
C10_TurnIsCursorParity == isXNext = (step % 2 = 0)

C10_Witness ==
    /\ last.op = "jump"
    /\ last.k = 2
    /\ step = 1
    /\ ~isXNext

\* C11: the cursor indexes an existing history entry, 0 <= step < length of
\* the history, whatever moves, jumps, resets, mode changes and resolved
\* computer turns came before.
C11_CursorInHistory == 0 <= step /\ step < Len(history)

\* a stale computer turn resolved after a jump back: history and cursor are
\* both replaced
C11_Witness ==
    /\ last.op = "resolve"
    /\ last.ok
    /\ last.k = 0
    /\ step = Len(history) - 1
    /\ step > 0

\* C12: once the board at the cursor is won or drawn, no move is applied,
\* neither by a click nor by a computer turn (one whose request was started
\* earlier included): board and history change only by a jump, a reset or
\* a mode change.
C12_NoMoveAfterEnd ==
    [][calculateWinner(board) # NoResult =>
         \/ UNCHANGED <<board, history>>
         \/ last'.op \in {"jump", "reset", "mode"}]_vars

\* outcome of a board in the words of the rules: three equal marks in a
\* row, a column or a diagonal; no empty cell
ThreeInLine(b) ==
    \E m \in {"X", "O"} :
        \/ \E r \in Idx : \A c \in Idx : b[r][c] = m
        \/ \E c \in Idx : \A r \in Idx : b[r][c] = m
        \/ \A i \in Idx : b[i][i] = m
        \/ \A i \in Idx : b[i][2 - i] = m

Full(b) == \A r \in Idx : \A c \in Idx : b[r][c] # null

\* C13: a human click is rejected when the board is won or drawn, when the
\* cell is occupied, or when the mode is pvc and it is O's turn; a rejected
\* click changes neither board, history, step nor turn; every other click
\* puts the mark of the turn into the cell, which in pvc is never O.
C13_RejectedClick ==
    [][\A p \in Idx \X Idx :
         HandleCellClick(p[1], p[2]) =>
           IF \/ ThreeInLine(board) \/ Full(board)
              \/ board[p[1]][p[2]] # null
              \/ (mode = "pvc" /\ ~isXNext)
           THEN UNCHANGED session
           ELSE /\ board'[p[1]][p[2]] = (IF isXNext THEN "X" ELSE "O")
                /\ (mode = "pvc" => board'[p[1]][p[2]] = "X")]_vars

\* a click rejected on a won board although an offered cell is empty
C13_Witness ==
    /\ last.op = "click"
    /\ ~last.ok
    /\ ThreeInLine(board)
    /\ \E p \in GameCells(step) : board[p[1]][p[2]] = null

\* it is the computer's turn and the render has settled
TurnDue == ~depsChanged /\ aiGuard

\* C14: whenever it is the computer's turn in pvc on a board without result,
\* the turn ends: a computer move is applied (or a reset, jump or mode change
\* takes the turn away), even if the external service never answers.
C14_ComputerMoveEventually == TurnDue ~> ~TurnDue

TimedTurnEnds == (TurnDue /\ build # "openai") ~> ~TurnDue

\* the suggestion step failed: the request was rejected, the answer holds no
\* pair, or the pair is outside the board or names an occupied cell
suggestionFailed(cl, resp) ==
    LET r == getOpenAIMove(resp)
    IN  \/ r.threw
        \/ Len(r.move) # 2
        \/ r.move[1] \notin Idx
        \/ r.move[2] \notin Idx
        \/ cl.board[r.move[1]][r.move[2]] # null

\* C15: every failure of the suggestion step ends with the fallback move
\* applied and the advisory status (error) set.
C15_FailureFallsBackAndAdvises ==
    [][\A cl \in BagToSet(pending), resp \in Responses :
         (Resolve(cl, resp) /\ suggestionFailed(cl, resp)) =>
           /\ history'[Len(history')].move = findBestMove(cl.board)
           /\ error' # ""]_vars

\* C16: while a suggestion request is unresolved the "awaiting computer
\* move" status is shown: aiThinking is true in every state with a pending
\* request.
C16_ThinkingWhilePending == pending # EmptyBag => aiThinking

\* C17: for every 3x3 board over {empty, X, O} the evaluator reports exactly
\* one outcome: a win iff some row, column or diagonal holds three equal
\* marks, otherwise a draw iff no cell is empty, otherwise no result; a
\* board with nine marks is never reported as in progress.
C17_OutcomeOfEveryBoard ==
    LET w == calculateWinner(board)
        won == ThreeInLine(board)
    IN  /\ (w.winner # null) <=> won
        /\ w.draw <=> (~won /\ Full(board))
        /\ (w = NoResult) <=> (~won /\ ~Full(board))
        /\ ~(w.winner # null /\ w.draw)
        /\ ~depsChanged =>
              /\ (status \in {"Winner: X", "Winner: O"}) <=> won
              /\ (status = "Draw!") <=> (~won /\ Full(board))
              /\ (status = "Next: X") <=> (~won /\ ~Full(board))

\* a full board without a line, evaluated to a draw
C17_Witness ==
    /\ last.op = "effects"
    /\ Full(board)
    /\ ~ThreeInLine(board)
    /\ status = "Draw!"

\* the n-th line in the order rows 0..2, columns 0..2, main diagonal,
\* anti-diagonal, its cells by increasing row (by increasing column in a row)
lineInOrder(n) ==
    IF n <= 3 THEN [k \in 1..3 |-> <<n - 1, k - 1>>]
    ELSE IF n <= 6 THEN [k \in 1..3 |-> <<k - 1, n - 4>>]
    ELSE IF n = 7 THEN [k \in 1..3 |-> <<k - 1, k - 1>>]
    ELSE [k \in 1..3 |-> <<k - 1, 3 - k>>]

holdsThree(b, l) ==
    \E m \in {"X", "O"} : \A k \in 1..3 : b[l[k][1]][l[k][2]] = m

completeInOrder(b) == {n \in 1..8 : holdsThree(b, lineInOrder(n))}

\* C18: on a board with complete lines the evaluator reports the first
\* complete line in the order rows 0..2, columns 0..2, main diagonal,
\* anti-diagonal, with its cells in their defined order, and the mark of
\* that line as the winner.
C18_FirstLineInOrder ==
    completeInOrder(board) # {} =>
      LET n == CHOOSE k \in completeInOrder(board) :
                 \A j \in completeInOrder(board) : k <= j
          w == calculateWinner(board)
      IN  /\ w.line = lineInOrder(n)
          /\ w.winner = board[lineInOrder(n)[1][1]][lineInOrder(n)[1][2]]
          /\ ~depsChanged =>
                /\ winningLine = lineInOrder(n)
                /\ status = (IF w.winner = "X" THEN "Winner: X"
                                               ELSE "Winner: O")

\* column 1 and the anti-diagonal both complete: column 1 is reported
C18_Witness ==
    /\ last.op = "effects"
    /\ completeInOrder(board) = {5, 8}
    /\ winningLine = << <<0, 1>>, <<1, 1>>, <<2, 1>> >>

\* C19: in a legally played game (marks alternate starting with X, play
\* stops at the first win) no reachable board has more than one complete
\* line.
C19_AtMostOneLine == Cardinality(completeInOrder(board)) <= 1

\* C19 as amended: the complete lines of a reachable board all pass through
\* the cell of the move that produced the board; there are at most two of
\* them, and two only when that one move completed both.
C19_LinesThroughLastMove ==
    completeInOrder(board) # {} =>
      /\ step >= 1
      /\ Cardinality(completeInOrder(board)) <= 2
      /\ \A n \in completeInOrder(board) :
            \E k \in 1..3 : lineInOrder(n)[k] = history[step + 1].move

\* the ninth move, X at (0,0), has completed row 0 and column 0
C19_Witness ==
    /\ last.op = "click"
    /\ last.ok
    /\ completeInOrder(board) = {1, 4}
    /\ history[step + 1].move = <<0, 0>>

\* the move at cell p with mark m, applied to the board b its handler read:
\* the new board is b with m at p and the other eight cells as they were,
\* it is the board of the new last entry, and the entry before it still
\* holds b
movedFrom(b, p, m) ==
    LET n == Len(history')
    IN  /\ board'[p[1]][p[2]] = m
        /\ \A q \in Idx \X Idx : q # p => board'[q[1]][q[2]] = b[q[1]][q[2]]
        /\ history'[n].board = board'
        /\ history'[n - 1].board = b
        /\ b[p[1]][p[2]] = null

emptyCells(b) == {p \in Idx \X Idx : b[p[1]][p[2]] = null}

\* the empty cell that comes first when rows are read top to bottom and
\* each row left to right
rowMajorFirst(b) ==
    CHOOSE p \in emptyCells(b) :
      \A q \in emptyCells(b) : 3 * p[1] + p[2] <= 3 * q[1] + q[2]

\* C21: on every board with at least one empty cell the fallback selector
\* returns the first empty cell in row-major order, and that cell is the
\* move a computer turn then applies.
C21_FallbackRowMajorFirst ==
    /\ emptyCells(board) # {} => findBestMove(board) = rowMajorFirst(board)
    /\ last.ok => history[2].move = rowMajorFirst(history[1].board)

\* only (0,0) and (0,1) are occupied and the computer has moved at (0,2)
C21_Witness ==
    /\ last.ok
    /\ emptyCells(history[1].board) = (Idx \X Idx) \ {<<0, 0>>, <<0, 1>>}
    /\ history[2].move = <<0, 2>>
    /\ board[0][2] = "O"

\* C22: the fallback selector is never invoked on a full board: the board of
\* the render whose computer-turn effect passes its guard, the board held by
\* every request in flight and the board held by the timer each have an
\* empty cell, so the selector yields a move.
C22_FallbackNeverOnFullBoard ==
    /\ (depsChanged /\ aiGuard) =>
          (emptyCells(board) # {} /\ findBestMove(board) # NoMove)
    /\ \A cl \in BagToSet(pending) :
          emptyCells(cl.board) # {} /\ findBestMove(cl.board) # NoMove
    /\ timer # << >> =>
          (emptyCells(timer[1].board) # {} /\ findBestMove(timer[1].board) # NoMove)

\* the human has filled the last cell in pvc: it would be O's turn, the
\* effects have run and no computer turn was started
C22_Witness ==
    /\ last.op = "effects"
    /\ mode = "pvc"
    /\ ~isXNext
    /\ emptyCells(board) = {}
    /\ pending = EmptyBag
    /\ timer = << >>
    /\ step = 9

\* the session a reset leaves: one history entry holding the empty board,
\* cursor 0, empty board, X to move
freshSession(b, h, s, x) ==
    /\ Len(h) = 1
    /\ emptyCells(h[1].board) = Idx \X Idx
    /\ s = 0
    /\ emptyCells(b) = Idx \X Idx
    /\ x

\* C23: from any state a reset, and likewise a mode change, leaves the
\* fresh initial session: a history of exactly one entry holding the empty
\* board, step 0, the empty board and X to move; a reset keeps the mode, a
\* mode change sets it to the selected one.
C23_ResetGivesFreshSession ==
    [][/\ HandleReset =>
            (freshSession(board', history', step', isXNext') /\ mode' = mode)
       /\ \A m \in {"pvp", "pvc"} :
            HandleModeChange(m) =>
              (freshSession(board', history', step', isXNext') /\ mode' = m)]_vars

\* the mode was changed to pvc in the middle of a game
C23_Witness ==
    /\ last.op = "mode"
    /\ last.n >= 3
    /\ last.k >= 1
    /\ mode = "pvc"
    /\ freshSession(board, history, step, isXNext)

\* C24: once an operation has settled (its state updates and the effects
\* have run) the winning line shown matches the board at the cursor: it is
\* the first complete line of that board when the board has one, and none
\* otherwise; this includes a jump to the step that is already current.
C24_OutcomeMatchesBoard ==
    ~depsChanged =>
      winningLine =
        IF completeInOrder(board) = {} THEN NoLine
        ELSE lineInOrder(CHOOSE n \in completeInOrder(board) :
                           \A k \in completeInOrder(board) : n <= k)

\* C25: in every reachable state the displayed board is the board stored in
\* the history entry at the cursor, after any sequence of moves, jumps,
\* resets and resolved computer turns.
C25_BoardIsEntryAtCursor ==
    /\ step + 1 \in DOMAIN history
    /\ \A p \in Idx \X Idx :
         board[p[1]][p[2]] = history[step + 1].board[p[1]][p[2]]

\* a jump back from a later step has settled: the cursor is strictly inside
\* the history and the board shown has fewer marks than the last entry
C25_Witness ==
    /\ last.op = "effects"
    /\ step >= 1
    /\ step + 2 < Len(history)
    /\ Cardinality(emptyCells(board)) = 9 - step
    /\ Cardinality(emptyCells(history[Len(history)].board)) = 10 - Len(history)

lineOf(b, m) ==
    \E n \in 1..8 :
        \A k \in 1..3 : b[lineInOrder(n)[k][1]][lineInOrder(n)[k][2]] = m

\* C26: no board stored in the history contains a complete line of X
\* together with a complete line of O, after any sequence of moves, jumps,
\* resets and computer turns.
C26_NoBoardWonByBoth ==
    \A i \in DOMAIN history :
        ~(lineOf(history[i].board, "X") /\ lineOf(history[i].board, "O"))

\* a game against the computer that X has won: the last entry holds a
\* complete line of X and none of O, four cells are still empty, and the
\* computer's turn has been considered and no move of it is under way
C26_Witness ==
    /\ mode = "pvc"
    /\ last.op = "effects"
    /\ ~isXNext
    /\ step + 1 = Len(history)
    /\ lineOf(history[Len(history)].board, "X")
    /\ ~lineOf(history[Len(history)].board, "O")
    /\ Cardinality(emptyCells(board)) = 4
    /\ pending = EmptyBag
    /\ timer = << >>
====
